---- MODULE Spec2Model ----
(***************************************************************************)
(* Model of the OCI IoT MCP server (oci_iot_mcp_server/server.py and       *)
(* health.py): the memoized client factory get_iot_client, the eighteen    *)
(* pass-through tools layered over it, and the health check.               *)
(*                                                                         *)
(* Each request served by the host runtime is a thread t.  A thread runs   *)
(* one invocation at a time: it enters at "idle", walks the statements of  *)
(* get_iot_client, issues its remote call, and rests at "done" holding the *)
(* value it returned or the exception it raised until Return(t).           *)
(***************************************************************************)
EXTENDS Integers, Sequences, FiniteSets, TLC

\* ---------------------------------------------------------------- bounds
NThreads == 2
ToolsPerStyle == 1
MaxFailed == 1

Threads == 1..NThreads

\* ------------------------------------------------------- program constants
\* _iot_client = None (server.py:28); handles are numbered from 1
NONE == 0

PyNone == "None"
Absent == "<argument omitted>"

PARAM_DEFAULT_PROFILE == "INTWIM-IAD-IOT"
ENV_DEFAULT_PROFILE == "DEFAULT"

\* values OCI_CONFIG_PROFILE can have in the process environment
EnvValues == {PyNone, "PROD"}
\* what a direct caller of get_iot_client can pass as profile_name
ProfileArgs == {Absent, PyNone, "TEAM"}

GetTools ==
    << "get_digital_twin_adapter", "get_digital_twin_instance",
       "get_digital_twin_instance_content", "get_digital_twin_model",
       "get_digital_twin_model_spec", "get_digital_twin_relationship",
       "get_iot_domain", "get_iot_domain_group", "get_work_request" >>

ListTools ==
    << "list_digital_twin_adapters", "list_digital_twin_models",
       "list_digital_twin_instances", "list_digital_twin_relationships",
       "list_iot_domain_groups", "list_iot_domains",
       "list_work_request_errors", "list_work_request_logs",
       "list_work_requests" >>

Range(s) == {s[i] : i \in DOMAIN s}

Tools == Range(GetTools) \cup Range(ListTools)

\* the tools concurrent threads draw from (the first ToolsPerStyle of each style)
ConcTools ==
    {GetTools[i] : i \in {j \in DOMAIN GetTools : j <= ToolsPerStyle}}
      \cup {ListTools[i] : i \in {j \in DOMAIN ListTools : j <= ToolsPerStyle}}

HealthOps == {"health_check", "health.health_check"}

Ids == {"ocid1.a", "ocid1.b"}

\* .data of a remote response: an object for get, an ordered collection for list
GetPayloads == {<<"obj_x">>, <<"obj_y">>}
ListPayloads == {<<"item_x", "item_y">>, <<"item_y", "item_x">>}

PayloadsOf(tool) == IF tool \in Range(GetTools) THEN GetPayloads ELSE ListPayloads

\* the client method each tool calls
RemoteOp(tool) ==
    CASE tool = "get_digital_twin_adapter" -> "get_digital_twin_adapter"
      [] tool = "get_digital_twin_instance" -> "get_digital_twin_instance"
      [] tool = "get_digital_twin_instance_content" -> "get_digital_twin_instance_content"
      [] tool = "get_digital_twin_model" -> "get_digital_twin_model"
      [] tool = "get_digital_twin_model_spec" -> "get_digital_twin_model_spec"
      [] tool = "get_digital_twin_relationship" -> "get_digital_twin_relationship"
      [] tool = "get_iot_domain" -> "get_iot_domain"
      [] tool = "get_iot_domain_group" -> "get_iot_domain_group"
      [] tool = "get_work_request" -> "get_work_request"
      [] tool = "list_digital_twin_adapters" -> "list_digital_twin_adapters"
      [] tool = "list_digital_twin_models" -> "list_digital_twin_models"
      [] tool = "list_digital_twin_instances" -> "list_digital_twin_instances"
      [] tool = "list_digital_twin_relationships" -> "list_digital_twin_relationships"
      [] tool = "list_iot_domain_groups" -> "list_iot_domain_groups"
      [] tool = "list_iot_domains" -> "list_iot_domains"
      [] tool = "list_work_request_errors" -> "list_work_request_errors"
      [] tool = "list_work_request_logs" -> "list_work_request_logs"
      [] tool = "list_work_requests" -> "list_work_requests"

\* the keyword under which each tool passes its identifier
RemoteKw(tool) ==
    CASE tool = "get_digital_twin_adapter" -> "digital_twin_adapter_id"
      [] tool = "get_digital_twin_instance" -> "digital_twin_instance_id"
      [] tool = "get_digital_twin_instance_content" -> "digital_twin_instance_id"
      [] tool = "get_digital_twin_model" -> "digital_twin_model_id"
      [] tool = "get_digital_twin_model_spec" -> "digital_twin_model_id"
      [] tool = "get_digital_twin_relationship" -> "digital_twin_relationship_id"
      [] tool = "get_iot_domain" -> "iot_domain_id"
      [] tool = "get_iot_domain_group" -> "iot_domain_group_id"
      [] tool = "get_work_request" -> "work_request_id"
      [] tool = "list_digital_twin_adapters" -> "iot_domain_id"
      [] tool = "list_digital_twin_models" -> "iot_domain_id"
      [] tool = "list_digital_twin_instances" -> "iot_domain_id"
      [] tool = "list_digital_twin_relationships" -> "iot_domain_id"
      [] tool = "list_iot_domain_groups" -> "compartment_id"
      [] tool = "list_iot_domains" -> "compartment_id"
      [] tool = "list_work_request_errors" -> "work_request_id"
      [] tool = "list_work_request_logs" -> "work_request_id"
      [] tool = "list_work_requests" -> "compartment_id"

\* ------------------------------------------------------------------ state
VARIABLES
    _iot_client,          \* the global client cache: NONE or the number of a handle
    handles,              \* every IotClient constructed so far, in order of assignment
    environ,              \* value of OCI_CONFIG_PROFILE (PyNone when unset)
    healthy,              \* config file, key file, token file and SDK constructors all work
    failedConstructions,  \* constructions that raised (saturates at MaxFailed)
    pc,                   \* per thread: the statement it is about to run
    op,                   \* per thread: the function being served
    arg,                  \* per thread: the argument it was given
    loc,                  \* per thread: local variables of get_iot_client and of the tool
    result,               \* per thread: <<v>> once v was returned, else << >>
    exc,                  \* per thread: the exception leaving the outermost function
    raised,               \* per thread: the exception as the failing call raised it
    logs,                 \* per thread: log records emitted by the current invocation
    remote                \* per thread: remote operations issued by the current invocation

vars == << _iot_client, handles, environ, healthy, failedConstructions,
           pc, op, arg, loc, result, exc, raised, logs, remote >>

NoExc == [type |-> "none", at |-> "none"]
NoSigner == [token |-> PyNone, private_key |-> PyNone]
NoLocals == [profile_name |-> PyNone, config |-> PyNone, private_key |-> PyNone,
             token |-> PyNone, signer |-> NoSigner, iot_client |-> NONE]

Init ==
    /\ _iot_client = NONE
    /\ handles = << >>
    /\ environ \in EnvValues
    /\ healthy \in BOOLEAN
    /\ failedConstructions = 0
    /\ pc = [t \in Threads |-> "idle"]
    /\ op = [t \in Threads |-> PyNone]
    /\ arg = [t \in Threads |-> PyNone]
    /\ loc = [t \in Threads |-> NoLocals]
    /\ result = [t \in Threads |-> << >>]
    /\ exc = [t \in Threads |-> NoExc]
    /\ raised = [t \in Threads |-> NoExc]
    /\ logs = [t \in Threads |-> << >>]
    /\ remote = [t \in Threads |-> << >>]

\* ------------------------------------------------- get_iot_client helpers
\* the keyword default of the profile_name parameter
BindDefault(p) == IF p = Absent THEN PARAM_DEFAULT_PROFILE ELSE p

\* os.getenv("OCI_CONFIG_PROFILE", default)
Getenv(default) == IF environ = PyNone THEN default ELSE environ

\* if profile_name is None: profile_name = os.getenv(..., "DEFAULT")
ResolveProfile(p) == IF p = PyNone THEN Getenv(ENV_DEFAULT_PROFILE) ELSE p

\* a cache keyed on the requested profile: a hit only for the profile the handle was built with
CacheHitSameProfile(t) ==
    /\ _iot_client # NONE
    /\ handles[_iot_client].config = loc[t].profile_name

\* if _iot_client is not None
CacheHit(t) == _iot_client # NONE

\* oci.auth.signers.SecurityTokenSigner(token, private_key)
NewSigner(token, private_key) == [token |-> token, private_key |-> private_key]

\* the client constructed without the signer
NewHandleUnsigned(config, signer) == [config |-> config, signer |-> NoSigner]

\* oci.iot.IotClient(config, signer=signer)
NewHandle(config, signer) == [config |-> config, signer |-> signer]

CreatingLog(p) == [level |-> "INFO", msg |-> "Creating IoT client for profile", ref |-> p]
CreatedLog == [level |-> "INFO", msg |-> "IoT client created successfully", ref |-> ""]

\* except clauses that re-raise without logging
FactoryErrorLogSilent(e) == << >>

\* the three except clauses of get_iot_client: each logs one error
FactoryErrorLog(e) ==
    << [level |-> "ERROR",
        msg |-> CASE e.type = "ConfigFileNotFound" -> "OCI config file not found"
                  [] e.type = "InvalidConfig" -> "Invalid OCI configuration"
                  [] OTHER -> "Error creating IoT client",
        ref |-> e.type] >>

\* the exception wrapped into another kind instead of a bare raise
FactoryReraiseWrapped(e) == [type |-> "RuntimeError", at |-> e.at]

\* ... and ends with a bare raise
FactoryReraise(e) == e

\* the except clause of a tool: one error naming the identifier, then a bare raise
ToolErrorLog(tool, id, e) ==
    << [level |-> "ERROR", msg |-> tool, ref |-> id] >>

\* the tool raising a new error in place of the one it caught
ToolReraiseWrapped(e) == [type |-> "RuntimeError", at |-> e.at]

ToolReraise(e) == e

\* the collection returned in sorted order instead of the order received
ResponseDataSorted(resp) ==
    IF resp.data = << "item_y", "item_x" >> THEN << "item_x", "item_y" >> ELSE resp.data

\* return <response>.data
ResponseData(resp) == resp.data

\* a health check that reports on the client cache
HealthPayloadProbing(impl) ==
    [status |-> IF _iot_client = NONE THEN "starting" ELSE "healthy",
     service |-> "oci-iot-mcp-server",
     version |-> IF impl = "health_check" THEN "__version__" ELSE "1.0.0"]

\* the dictionary health_check returns (server.py and health.py differ in version)
HealthPayload(impl) ==
    [status |-> "healthy", service |-> "oci-iot-mcp-server",
     version |-> IF impl = "health_check" THEN "__version__" ELSE "1.0.0"]

Saturate(n) == IF n < MaxFailed THEN n + 1 ELSE MaxFailed

\* get_iot_client returns h: to its caller if called directly, into the tool's
\* local iot_client otherwise
ReturnClient(t, h) ==
    IF op[t] = "get_iot_client"
    THEN /\ result' = [result EXCEPT ![t] = <<h>>]
         /\ pc' = [pc EXCEPT ![t] = "done"]
         /\ UNCHANGED loc
    ELSE /\ loc' = [loc EXCEPT ![t].iot_client = h]
         /\ pc' = [pc EXCEPT ![t] = "remote"]
         /\ UNCHANGED result

\* a statement of the try block raises e after the records in emitted were logged
FactoryRaise(t, e, emitted) ==
    /\ raised' = [raised EXCEPT ![t] = e]
    /\ IF op[t] = "get_iot_client"
       THEN /\ exc' = [exc EXCEPT ![t] = FactoryReraise(e)]
            /\ logs' = [logs EXCEPT ![t] = logs[t] \o emitted \o FactoryErrorLog(e)]
       ELSE /\ exc' = [exc EXCEPT ![t] = ToolReraise(FactoryReraise(e))]
            /\ logs' = [logs EXCEPT ![t] =
                          logs[t] \o emitted \o FactoryErrorLog(e)
                            \o ToolErrorLog(op[t], arg[t], FactoryReraise(e))]
    /\ pc' = [pc EXCEPT ![t] = "done"]
    /\ failedConstructions' = Saturate(failedConstructions)
    /\ UNCHANGED << _iot_client, handles, environ, healthy, op, arg, loc, result, remote >>

\* ---------------------------------------------------------------- actions
\* a direct call get_iot_client(profile_name) / get_iot_client()
CallFactory(t) ==
    /\ pc[t] = "idle"
    /\ \E p \in ProfileArgs :
         /\ op' = [op EXCEPT ![t] = "get_iot_client"]
         /\ arg' = [arg EXCEPT ![t] = p]
         /\ loc' = [loc EXCEPT ![t].profile_name = ResolveProfile(BindDefault(p))]
    /\ pc' = [pc EXCEPT ![t] = "check"]
    /\ UNCHANGED << _iot_client, handles, environ, healthy, failedConstructions,
                    result, exc, raised, logs, remote >>

\* a tool is invoked with an identifier; its first statement is get_iot_client()
InvokeTool(t, toolset) ==
    /\ pc[t] = "idle"
    /\ \E tool \in toolset, id \in Ids :
         /\ op' = [op EXCEPT ![t] = tool]
         /\ arg' = [arg EXCEPT ![t] = id]
    /\ loc' = [loc EXCEPT ![t].profile_name = ResolveProfile(BindDefault(Absent))]
    /\ pc' = [pc EXCEPT ![t] = "check"]
    /\ UNCHANGED << _iot_client, handles, environ, healthy, failedConstructions,
                    result, exc, raised, logs, remote >>

\* if _iot_client is not None: return _iot_client
CacheCheck(t) ==
    /\ pc[t] = "check"
    /\ IF CacheHit(t)
       THEN ReturnClient(t, _iot_client)
       ELSE /\ pc' = [pc EXCEPT ![t] = "from_file"]
            /\ UNCHANGED << loc, result >>
    /\ UNCHANGED << _iot_client, handles, environ, healthy, failedConstructions,
                    op, arg, exc, raised, logs, remote >>

\* logger.info("Creating ..."); config = oci.config.from_file(profile_name=...)
FromFile(t) ==
    /\ pc[t] = "from_file"
    /\ \/ /\ loc' = [loc EXCEPT ![t].config = loc[t].profile_name]
          /\ logs' = [logs EXCEPT ![t] = Append(logs[t], CreatingLog(loc[t].profile_name))]
          /\ pc' = [pc EXCEPT ![t] = "load_key"]
          /\ UNCHANGED << _iot_client, handles, environ, healthy, failedConstructions,
                          op, arg, result, exc, raised, remote >>
       \/ /\ ~healthy
          /\ \E ty \in {"ConfigFileNotFound", "InvalidConfig"} :
               FactoryRaise(t, [type |-> ty, at |-> "from_file"],
                            << CreatingLog(loc[t].profile_name) >>)

\* private_key = oci.signer.load_private_key_from_file(config["key_file"])
LoadKey(t) ==
    /\ pc[t] = "load_key"
    /\ \/ /\ loc' = [loc EXCEPT ![t].private_key = "private_key"]
          /\ pc' = [pc EXCEPT ![t] = "read_token"]
          /\ UNCHANGED << _iot_client, handles, environ, healthy, failedConstructions,
                          op, arg, result, exc, raised, logs, remote >>
       \/ /\ ~healthy
          /\ FactoryRaise(t, [type |-> "Exception", at |-> "load_key"], << >>)

\* with open(config["security_token_file"], "r") as f: token = f.read()
ReadToken(t) ==
    /\ pc[t] = "read_token"
    /\ \/ /\ loc' = [loc EXCEPT ![t].token = "token"]
          /\ pc' = [pc EXCEPT ![t] = "signer"]
          /\ UNCHANGED << _iot_client, handles, environ, healthy, failedConstructions,
                          op, arg, result, exc, raised, logs, remote >>
       \/ /\ ~healthy
          /\ FactoryRaise(t, [type |-> "Exception", at |-> "read_token"], << >>)

\* signer = oci.auth.signers.SecurityTokenSigner(token, private_key)
MakeSigner(t) ==
    /\ pc[t] = "signer"
    /\ \/ /\ loc' = [loc EXCEPT ![t].signer = NewSigner(loc[t].token, loc[t].private_key)]
          /\ pc' = [pc EXCEPT ![t] = "client"]
          /\ UNCHANGED << _iot_client, handles, environ, healthy, failedConstructions,
                          op, arg, result, exc, raised, logs, remote >>
       \/ /\ ~healthy
          /\ FactoryRaise(t, [type |-> "Exception", at |-> "signer"], << >>)

\* _iot_client = oci.iot.IotClient(config, signer=signer)
MakeClient(t) ==
    /\ pc[t] = "client"
    /\ \/ /\ handles' = Append(handles, NewHandle(loc[t].config, loc[t].signer))
          /\ _iot_client' = Len(handles) + 1
          /\ pc' = [pc EXCEPT ![t] = "ret"]
          /\ UNCHANGED << environ, healthy, failedConstructions,
                          op, arg, loc, result, exc, raised, logs, remote >>
       \/ /\ ~healthy
          /\ FactoryRaise(t, [type |-> "Exception", at |-> "client"], << >>)

\* logger.info("IoT client created successfully"); return _iot_client
FactoryRet(t) ==
    /\ pc[t] = "ret"
    /\ logs' = [logs EXCEPT ![t] = Append(logs[t], CreatedLog)]
    /\ ReturnClient(t, _iot_client)
    /\ UNCHANGED << _iot_client, handles, environ, healthy, failedConstructions,
                    op, arg, exc, raised, remote >>

\* x = iot_client.<op>(<kw>=<id>); return x.data  -- or the call raises
RemoteCall(t) ==
    /\ pc[t] = "remote"
    /\ \/ \E d \in PayloadsOf(op[t]) :
            /\ remote' = [remote EXCEPT ![t] =
                            Append(remote[t],
                                   [client |-> loc[t].iot_client, op |-> RemoteOp(op[t]),
                                    kw |-> RemoteKw(op[t]), id |-> arg[t],
                                    raises |-> FALSE, data |-> d])]
            /\ result' = [result EXCEPT ![t] = << ResponseData([data |-> d]) >>]
            /\ UNCHANGED << exc, raised, logs >>
       \/ LET e == [type |-> "ServiceError", at |-> "remote"] IN
            /\ remote' = [remote EXCEPT ![t] =
                            Append(remote[t],
                                   [client |-> loc[t].iot_client, op |-> RemoteOp(op[t]),
                                    kw |-> RemoteKw(op[t]), id |-> arg[t],
                                    raises |-> TRUE, data |-> << >>])]
            /\ raised' = [raised EXCEPT ![t] = e]
            /\ exc' = [exc EXCEPT ![t] = ToolReraise(e)]
            /\ logs' = [logs EXCEPT ![t] = logs[t] \o ToolErrorLog(op[t], arg[t], e)]
            /\ UNCHANGED result
    /\ pc' = [pc EXCEPT ![t] = "done"]
    /\ UNCHANGED << _iot_client, handles, environ, healthy, failedConstructions,
                    op, arg, loc >>

\* health_check() of server.py or of health.py
HealthCheck(t) ==
    /\ pc[t] = "idle"
    /\ \E impl \in HealthOps :
         /\ op' = [op EXCEPT ![t] = impl]
         /\ result' = [result EXCEPT ![t] = << HealthPayload(impl) >>]
    /\ pc' = [pc EXCEPT ![t] = "done"]
    /\ UNCHANGED << _iot_client, handles, environ, healthy, failedConstructions,
                    arg, loc, exc, raised, logs, remote >>

\* the caller has taken the outcome; the thread serves the next request
Return(t) ==
    /\ pc[t] = "done"
    /\ pc' = [pc EXCEPT ![t] = "idle"]
    /\ op' = [op EXCEPT ![t] = PyNone]
    /\ arg' = [arg EXCEPT ![t] = PyNone]
    /\ loc' = [loc EXCEPT ![t] = NoLocals]
    /\ result' = [result EXCEPT ![t] = << >>]
    /\ exc' = [exc EXCEPT ![t] = NoExc]
    /\ raised' = [raised EXCEPT ![t] = NoExc]
    /\ logs' = [logs EXCEPT ![t] = << >>]
    /\ remote' = [remote EXCEPT ![t] = << >>]
    /\ UNCHANGED << _iot_client, handles, environ, healthy, failedConstructions >>

\* the files and services get_iot_client depends on break or are repaired
EnvChange ==
    /\ healthy' = ~healthy
    /\ UNCHANGED << _iot_client, handles, environ, failedConstructions,
                    pc, op, arg, loc, result, exc, raised, logs, remote >>

\* ---------------------------------------------------------- specifications
\* requests served concurrently, statements interleaved
Next ==
    \/ \E t \in Threads : CallFactory(t)
    \/ \E t \in Threads : InvokeTool(t, ConcTools)
    \/ \E t \in Threads : CacheCheck(t)
    \/ \E t \in Threads : FromFile(t)
    \/ \E t \in Threads : LoadKey(t)
    \/ \E t \in Threads : ReadToken(t)
    \/ \E t \in Threads : MakeSigner(t)
    \/ \E t \in Threads : MakeClient(t)
    \/ \E t \in Threads : FactoryRet(t)
    \/ \E t \in Threads : RemoteCall(t)
    \/ \E t \in Threads : HealthCheck(t)
    \/ \E t \in Threads : Return(t)
    \/ EnvChange

Spec == Init /\ [][Next]_vars

\* a single sequential flow: a request starts only when no other is in progress
Alone(t) == \A u \in Threads \ {t} : pc[u] = "idle"

SeqNext ==
    \/ \E t \in Threads : Alone(t) /\ CallFactory(t)
    \/ \E t \in Threads : Alone(t) /\ InvokeTool(t, Tools)
    \/ \E t \in Threads : Alone(t) /\ CacheCheck(t)
    \/ \E t \in Threads : Alone(t) /\ FromFile(t)
    \/ \E t \in Threads : Alone(t) /\ LoadKey(t)
    \/ \E t \in Threads : Alone(t) /\ ReadToken(t)
    \/ \E t \in Threads : Alone(t) /\ MakeSigner(t)
    \/ \E t \in Threads : Alone(t) /\ MakeClient(t)
    \/ \E t \in Threads : Alone(t) /\ FactoryRet(t)
    \/ \E t \in Threads : Alone(t) /\ RemoteCall(t)
    \/ \E t \in Threads : Alone(t) /\ HealthCheck(t)
    \/ \E t \in Threads : Alone(t) /\ Return(t)
    \/ EnvChange

SeqSpec == Init /\ [][SeqNext]_vars

\* ------------------------------------------------------------------ claims
ConstructionPcs == {"from_file", "load_key", "read_token", "signer", "client"}

NextPc(p) ==
    CASE p = "from_file" -> "load_key"
      [] p = "load_key" -> "read_token"
      [] p = "read_token" -> "signer"
      [] p = "signer" -> "client"
      [] p = "client" -> "ret"

\* get_iot_client of thread t returns in this step
FactoryReturns(t) ==
    /\ pc[t] \in {"check", "ret"}
    /\ pc'[t] \in {"done", "remote"}

\* the value it returns
ReturnedIs(t, h) ==
    IF op[t] = "get_iot_client" THEN result'[t] = <<h>> ELSE loc'[t].iot_client = h

CountLevel(entries, level) ==
    Cardinality({i \in DOMAIN entries : entries[i].level = level})

C2_SingleHandle ==
    /\ Len(handles) <= 1
    /\ _iot_client \in {NONE, 1}

\* C3: a get_iot_client call that fails during construction raises the exception
\* of the failing statement unchanged, returns nothing and leaves the cache
\* uninitialized; with the configuration, key, token and constructors in order
\* every construction step succeeds, and the call that completes construction
\* returns the handle it stored in the cache.
C3_FailureLeavesCacheUnset ==
    [][ \A t \in Threads :
          /\ (pc[t] \in ConstructionPcs /\ pc'[t] = "done") =>
               /\ raised'[t].at = pc[t]
               /\ exc'[t] = raised'[t]
               /\ result'[t] = << >>
               /\ _iot_client' = NONE
               /\ handles' = << >>
          /\ (pc[t] \in ConstructionPcs /\ pc'[t] # pc[t] /\ healthy) =>
               /\ pc'[t] = NextPc(pc[t])
               /\ exc'[t] = NoExc
          /\ (pc[t] = "ret" /\ pc'[t] # "ret") =>
               /\ _iot_client' # NONE
               /\ ReturnedIs(t, _iot_client')
               /\ exc'[t] = NoExc ]_vars

\* after a failed construction a later call built the handle and set the cache
C3_Witness ==
    \E t \in Threads :
        /\ failedConstructions > 0
        /\ pc[t] = "done"
        /\ op[t] = "get_iot_client"
        /\ exc[t] = NoExc
        /\ loc[t].signer # NoSigner
        /\ _iot_client # NONE
        /\ result[t] = << _iot_client >>

\* C4: a tool invocation that succeeded issued exactly one remote operation, the
\* one named like the tool, with the identifier it was given, on a constructed
\* handle, and returned that response's data as it came (same items, same order);
\* no invocation issues more than one remote operation or returns without one.
C4_PassThrough ==
    \A t \in Threads :
        /\ Len(remote[t]) <= 1
        /\ (pc[t] = "done" /\ op[t] \in Tools /\ exc[t] = NoExc) =>
             /\ Len(remote[t]) = 1
             /\ remote[t][1].op = op[t]
             /\ remote[t][1].id = arg[t]
             /\ remote[t][1].client \in 1..Len(handles)
             /\ ~remote[t][1].raises
             /\ result[t] = << remote[t][1].data >>

\* a list tool served from the cached handle still made its own remote call and
\* returned that call's collection in the order received
C4_Witness ==
    \E t \in Threads :
        /\ pc[t] = "done"
        /\ op[t] = "list_work_requests"
        /\ exc[t] = NoExc
        /\ logs[t] = << >>
        /\ Len(remote[t]) = 1
        /\ result[t] = << << "item_y", "item_x" >> >>

\* C5: when client acquisition or the remote call raised, the tool raises that
\* same exception, returns nothing, and has attempted the remote operation at
\* most once (once if the remote call raised, not at all if acquisition did).
C5_PropagatesOnce ==
    \A t \in Threads :
        (pc[t] = "done" /\ op[t] \in Tools /\ raised[t] # NoExc) =>
            /\ exc[t] = raised[t]
            /\ result[t] = << >>
            /\ IF raised[t].at = "remote"
               THEN Len(remote[t]) = 1 /\ remote[t][1].raises
               ELSE remote[t] = << >>

\* a tool whose remote call raised ServiceError ended with that ServiceError
C5_Witness ==
    \E t \in Threads :
        /\ pc[t] = "done"
        /\ op[t] \in Tools
        /\ raised[t] = [type |-> "ServiceError", at |-> "remote"]
        /\ exc[t] = raised[t]
        /\ Len(remote[t]) = 1

\* C6 as stated: a tool invocation emits exactly one log entry if it fails and
\* none if it succeeds, wherever the failure occurs and whether or not the
\* invocation creates the handle.
C6_OneLogPerFailure ==
    \A t \in Threads :
        (pc[t] = "done" /\ op[t] \in Tools) =>
            Len(logs[t]) = IF exc[t] # NoExc THEN 1 ELSE 0

\* C6 amended: the ERROR entries of a tool invocation number none if it
\* succeeds, one if the remote call fails and two if client acquisition fails
\* (get_iot_client's and then the tool's); the tool's entry is the last and names
\* the identifier.  An invocation that found the cache empty emits in addition one
\* INFO entry before loading the configuration and one more once the handle is
\* created; an invocation served from the cache emits no INFO entry.
C6_LogCount ==
    \A t \in Threads :
        (pc[t] = "done" /\ op[t] \in Tools) =>
            /\ CountLevel(logs[t], "ERROR") =
                 (IF raised[t] = NoExc THEN 0
                  ELSE IF raised[t].at = "remote" THEN 1 ELSE 2)
            /\ CountLevel(logs[t], "INFO") =
                 (IF raised[t].at \in ConstructionPcs THEN 1
                  ELSE IF loc[t].signer # NoSigner THEN 2 ELSE 0)
            /\ Len(logs[t]) = CountLevel(logs[t], "ERROR") + CountLevel(logs[t], "INFO")
            /\ raised[t] # NoExc =>
                 /\ logs[t][Len(logs[t])].level = "ERROR"
                 /\ logs[t][Len(logs[t])].ref = arg[t]

\* a tool invocation whose client acquisition failed logged two errors
C6_Witness ==
    \E t \in Threads :
        /\ pc[t] = "done"
        /\ op[t] \in Tools
        /\ raised[t].at \in ConstructionPcs
        /\ exc[t] = raised[t]
        /\ CountLevel(logs[t], "ERROR") = 2
        /\ Len(logs[t]) = 3

\* the resolution order C7 states: explicit argument, else OCI_CONFIG_PROFILE,
\* else DEFAULT
ClaimedProfile(a) ==
    IF a \notin {Absent, PyNone} THEN a
    ELSE IF environ # PyNone THEN environ
    ELSE "DEFAULT"

\* C7: whenever get_iot_client constructs a handle the profile it loads is the
\* explicit argument if the caller supplied one, else OCI_CONFIG_PROFILE if set,
\* else DEFAULT; a tool invocation supplies no argument.
C7_ProfileResolution ==
    \A t \in Threads :
        loc[t].config # PyNone =>
            loc[t].config = ClaimedProfile(IF op[t] = "get_iot_client" THEN arg[t] ELSE Absent)

\* C8: health_check can be served by any idle thread in every state; it ends at
\* once with the constant payload (status healthy, service oci-iot-mcp-server),
\* without exception, log entry or any local of get_iot_client being touched, and
\* the step that serves it leaves the client cache and the handles as they were.
C8_HealthCheck ==
    /\ [](\A t \in Threads :
            /\ pc[t] = "idle" => ENABLED HealthCheck(t)
            /\ op[t] \in HealthOps =>
                 /\ pc[t] = "done"
                 /\ result[t] =
                      << [status |-> "healthy", service |-> "oci-iot-mcp-server",
                          version |-> IF op[t] = "health_check"
                                      THEN "__version__" ELSE "1.0.0"] >>
                 /\ exc[t] = NoExc
                 /\ logs[t] = << >>
                 /\ remote[t] = << >>
                 /\ loc[t] = NoLocals)
    /\ [][ \A t \in Threads :
             (op'[t] \in HealthOps /\ op[t] \notin HealthOps) =>
                 /\ _iot_client' = _iot_client
                 /\ handles' = handles
                 /\ failedConstructions' = failedConstructions ]_vars

\* health_check answered while the cache is uninitialized after a failed
\* construction, with another request in the middle of building the handle
C8_Witness ==
    \E t, u \in Threads :
        /\ op[t] \in HealthOps
        /\ pc[t] = "done"
        /\ result[t][1].status = "healthy"
        /\ _iot_client = NONE
        /\ failedConstructions > 0
        /\ pc[u] \in ConstructionPcs

FullyConstructed(h) ==
    /\ h.config # PyNone
    /\ h.signer.token = "token"
    /\ h.signer.private_key = "private_key"

\* C9: the cache always designates the handle assigned last (an earlier one is
\* overwritten), there are never more handles than concurrent callers, every
\* handle stored or returned is fully constructed (configuration loaded, signer
\* built from token and key), and every call returns one of the handles built.
C9_RaceBenign ==
    /\ _iot_client = Len(handles)
    /\ Len(handles) <= Cardinality(Threads)
    /\ \A i \in DOMAIN handles : FullyConstructed(handles[i])
    /\ \A t \in Threads :
         /\ loc[t].iot_client # NONE => loc[t].iot_client \in DOMAIN handles
         /\ (op[t] = "get_iot_client" /\ result[t] # << >>) =>
              result[t][1] \in DOMAIN handles

\* two concurrent first calls each built a handle; the cache holds the second and
\* the two callers hold different handles
C9_Witness ==
    \E t, u \in Threads :
        /\ Len(handles) = 2
        /\ _iot_client = 2
        /\ pc[t] = "done" /\ op[t] = "get_iot_client" /\ result[t] = << 1 >>
        /\ pc[u] = "done" /\ op[u] = "get_iot_client" /\ result[u] = << 2 >>
        /\ loc[t].signer # NoSigner
        /\ loc[u].signer # NoSigner

\* C10: once the cache is initialized no operation resets or rebuilds it: it
\* keeps the same handle, no further handle is constructed, and every tool
\* invocation's remote call runs on that handle.
C10_NeverRebuilt ==
    [][ /\ (_iot_client # NONE => _iot_client' = _iot_client /\ handles' = handles)
        /\ \A t \in Threads :
             (pc[t] = "remote" /\ pc'[t] = "done") =>
                 remote'[t][1].client = _iot_client ]_vars

====
